---- MODULE Spec2Model ----
(***************************************************************************)
(* A model of nobpp.hpp (last revision in the file, lines 1485-2582): the  *)
(* Command value with its staleness scalars, Command::Run's skip rule, the *)
(* compiler-specific token appends, the directory fan-out and the          *)
(* self-rebuild bootstrap of nob::Init.                                    *)
(*                                                                         *)
(* Strings (std::string, std::filesystem::path) are sequences of           *)
(* one-character strings, so that find/substr surgery and quoting are      *)
(* computed on characters as the code computes them.                       *)
(***************************************************************************)
EXTENDS Integers, Sequences, FiniteSets, TLC

VARIABLES
    config,             \* the build of the library: [compiler, host, initScript]
    fs,                 \* the file system: path -> [exists, mtime, data]
    CLFlags,            \* std::bitset<CLArgument::Count> of the running process
    OtherCLArguments,   \* std::vector<std::string> of the running process
    cmd,                \* the Command under composition (SpecCmd)
    ndecl,              \* how many declarations were applied to cmd
    missingIn,          \* history: a non-tolerant declared input was absent
    missingOut,         \* history: a non-tolerant declared output was absent
    lastRun,            \* the outcome of the last Command::Run
    argv,               \* argv of the running process (Spec)
    pc,                 \* position of the running process inside Init / main
    stack,              \* the suspended parents, blocked in std::system
    events,             \* history: what the running process did, in order
    exits,              \* history: the processes that ended, oldest first
    rebuilds,           \* history: how many times a rebuild command was issued
    dir,                \* the state of one CompileDirectory call (SpecDir)
    op                  \* the last token appended to cmd and what it logged (SpecTok)

sharedVars == <<config, fs, CLFlags, OtherCLArguments>>
cmdVars    == <<cmd, ndecl, missingIn, missingOut, lastRun>>
bootVars   == <<argv, pc, stack, events, exits, rebuilds>>
vars       == <<config, fs, CLFlags, OtherCLArguments,
                cmd, ndecl, missingIn, missingOut, lastRun,
                argv, pc, stack, events, exits, rebuilds, dir, op>>

----------------------------------------------------------------------------
(* Bounds of the model *)

MaxTime == 3
MaxDecls == 2
MaxArgs == 2
MaxFiles == 2

(* float: the modification time is converted to float seconds (line 1768);  *)
(* a float has 24 bits of mantissa, so neighbouring times collapse.          *)
FloatStep == 2

FLT_MAX == (MaxTime + 1) * 8

Times == 0 .. MaxTime

Max(a, b) == IF a >= b THEN a ELSE b
Min(a, b) == IF a <= b THEN a ELSE b
SetMin(S) == CHOOSE x \in S : \A y \in S : x <= y
SetMax(S) == CHOOSE x \in S : \A y \in S : x >= y

----------------------------------------------------------------------------
(* Strings *)

Q  == "\""
SP == " "

(* std::string::find: the first position (from 1) of pat in s, 0 for npos *)
Find(s, pat) ==
    LET hits == { i \in 1 .. (Len(s) - Len(pat) + 1) :
                      SubSeq(s, i, i + Len(pat) - 1) = pat }
    IN  IF hits = {} THEN 0 ELSE SetMin(hits)

(* s.substr(p) with p counted from 1 *)
SubstrFrom(s, p) == SubSeq(s, p, Len(s))

(* "\"" + s + "\"" *)
Quoted(s) == <<Q>> \o s \o <<Q>>

(* the last position of character c in s, 0 if none *)
LastIndexOf(s, c) ==
    LET hits == { i \in 1 .. Len(s) : s[i] = c }
    IN  IF hits = {} THEN 0 ELSE SetMax(hits)

(* std::filesystem::path::parent_path / filename / operator/ *)
parent_path(p) ==
    LET k == LastIndexOf(p, "/") IN IF k = 0 THEN <<>> ELSE SubSeq(p, 1, k - 1)
filename(p) == SubstrFrom(p, LastIndexOf(p, "/") + 1)
PathJoin(a, b) == IF a = <<>> THEN b ELSE a \o <<"/">> \o b

----------------------------------------------------------------------------
(* The file system *)

BinPath   == <<"b">>
SrcName   == <<"b", ".", "c">>
TmpObj    == <<"t", "/", "n", ".", "o">>
Ole32Lib  == <<"o", ".", "l", "i", "b">>
FileA     == <<"a", ".", "c">>
FileB     == <<"a", ".", "o">>
ErrorLog  == <<"e", ".", "t", "x", "t">>

NoFile == [exists |-> FALSE, mtime |-> 0, data |-> "none"]
File(t, d) == [exists |-> TRUE, mtime |-> t, data |-> d]

exists(p) == p \in DOMAIN fs /\ fs[p].exists
last_write_time(p) == fs[p].mtime

(* duration<float>(last_write_time(file).time_since_epoch()).count() *)
FloatOf(t) == (t \div FloatStep) * FloatStep

----------------------------------------------------------------------------
(* The builds of the library: compiler and host are fixed by the            *)
(* preprocessor, NOBPP_INIT_SCRIPT by the build driver.                      *)

Configs ==
    { [compiler |-> c, host |-> h, initScript |-> s] :
        c \in {"msvc", "gcc", "clang", "none"},
        h \in {"win32", "posix"}, s \in BOOLEAN }
    \ { k \in [compiler : {"msvc"}, host : {"posix"}, initScript : BOOLEAN] : TRUE }

----------------------------------------------------------------------------
(* struct Command and its operators *)

CWD == <<"w">>

(* Command{}: text "", path current_path(), latestInput 1.f, earliestOutput FLT_MAX *)
NewCommand(k, t) ==
    [kind |-> k, text |-> t, path |-> CWD, latestInput |-> 1, earliestOutput |-> FLT_MAX]

(* a variant of UpdateInputTime that tolerates every absent file *)
UpdateInputTimeTolerant(c, file, skipOnFail) ==
    IF exists(file)
    THEN [c EXCEPT !.latestInput = Max(@, FloatOf(last_write_time(file)))]
    ELSE c

UpdateInputTime(c, file, skipOnFail) ==
    IF exists(file)
    THEN [c EXCEPT !.latestInput = Max(@, FloatOf(last_write_time(file)))]
    ELSE IF ~skipOnFail
         THEN [c EXCEPT !.latestInput = FLT_MAX]
         ELSE c

(* a variant of UpdateOutputTime that stores the time without taking the minimum *)
UpdateOutputTimeAssign(c, file, skipOnFail) ==
    IF exists(file)
    THEN [c EXCEPT !.earliestOutput = FloatOf(last_write_time(file))]
    ELSE IF ~skipOnFail
         THEN [c EXCEPT !.earliestOutput = 0]
         ELSE c

UpdateOutputTime(c, file, skipOnFail) ==
    IF exists(file)
    THEN [c EXCEPT !.earliestOutput = Min(@, FloatOf(last_write_time(file)))]
    ELSE IF ~skipOnFail
         THEN [c EXCEPT !.earliestOutput = 0]
         ELSE c

(* a variant of operator+ that puts the blank after an empty text too *)
OpPlusStrAlwaysSpaced(a, b) == [a EXCEPT !.text = a.text \o <<SP>> \o b]

(* a variant of operator- that separates with a blank *)
OpMinusStrSpaced(a, b) ==
    [a EXCEPT !.text = IF a.text = <<>> THEN b ELSE a.text \o <<SP>> \o b]

(* operator+(Command, std::string) and operator-(Command, std::string) *)
OpPlusStr(a, b) ==
    [a EXCEPT !.text = IF a.text = <<>> THEN b ELSE a.text \o <<SP>> \o b]
OpMinusStr(a, b) ==
    [a EXCEPT !.text = IF a.text = <<>> THEN b ELSE a.text \o b]

(* operator+(Command, path) and operator-(Command, path) *)
OpPlusPath(a, p) == OpPlusStr(a, Quoted(p))
OpMinusPath(a, p) == OpMinusStr(a, Quoted(p))

(* a variant of operator+(Command, Command) that merges the staleness scalars *)
OpPlusCmdMerged(a, b) ==
    [a EXCEPT !.text = a.text \o <<SP, "&", "&", SP>> \o b.text,
              !.latestInput = Max(a.latestInput, b.latestInput),
              !.earliestOutput = Min(a.earliestOutput, b.earliestOutput)]

(* operator+(Command, Command) and operator-(Command, Command) *)
OpPlusCmd(a, b) == OpPlusStr(OpPlusStr(a, <<"&", "&">>), b.text)
OpMinusCmd(a, b) == OpPlusStr(a, b.text)

(* a variant of the skip rule that also skips on equal times *)
RunSkipsOnEqual(c) ==
    /\ "Clean" \notin CLFlags
    /\ c.earliestOutput # FLT_MAX
    /\ c.latestInput <= c.earliestOutput

(* the skip rule at the head of Command::Run *)
RunSkips(c) ==
    /\ "Clean" \notin CLFlags
    /\ c.earliestOutput # FLT_MAX
    /\ c.latestInput < c.earliestOutput

----------------------------------------------------------------------------
(* CompileCommand / LinkCommand / LibraryCommand and their tokens *)

CompileCommand ==
    NewCommand("compile",
        CASE config.compiler = "msvc" ->
                 <<"c","l"," ","-","c"," ","-","E","H","s","c"," ","-","n","o","l","o","g","o">>
          [] config.compiler = "gcc" -> <<"g","+","+"," ","-","c">>
          [] config.compiler = "clang" -> <<"c","l","a","n","g","+","+"," ","-","c">>
          [] OTHER -> <<>>)

LinkCommand ==
    NewCommand("link",
        CASE config.compiler = "msvc" ->
                 <<"c","l"," ","-","n","o","l","o","g","o"," ","-","l","i","n","k">>
          [] config.compiler = "gcc" -> <<"g","+","+">>
          [] config.compiler = "clang" -> <<"c","l","a","n","g","+","+">>
          [] OTHER -> <<>>)

LibraryCommand ==
    NewCommand("library",
        CASE config.compiler = "msvc" -> <<"l","i","b">>
          [] config.compiler \in {"gcc", "clang"} -> <<"a","r"," ","-","r","c","s">>
          [] OTHER -> <<>>)

(* operator+(CompileCommand, SourceFile) *)
PlusSourceFile(a, p) == OpPlusPath(UpdateInputTime(a, p, FALSE), p)

(* operator+(CompileCommand, ObjectFile) *)
PlusObjectFile(a, p) ==
    LET u == UpdateOutputTime(a, p, FALSE)
    IN  IF config.compiler = "msvc"
        THEN OpMinusPath(OpPlusStr(u, <<"-", "F", "o">>), p)
        ELSE OpPlusPath(OpPlusStr(u, <<"-", "o">>), p)

(* operator+(CompileCommand, IncludeDirectory) *)
PlusIncludeDirectory(a, p) == OpMinusPath(OpPlusStr(a, <<"-", "I">>), p)

(* AddEscapes, on the characters the model's strings can hold *)
AddEscapes(s) ==
    LET esc[i \in 0 .. Len(s)] ==
            IF i = 0 THEN <<>>
            ELSE esc[i - 1] \o
                 (IF s[i] \in {"'", Q, "?", "\\"} THEN <<"\\", s[i]>> ELSE <<s[i]>>)
    IN  esc[Len(s)]

(* operator+(CompileCommand, MacroDefinition) *)
PlusMacroDefinition(a, macro, definition) ==
    OpPlusStr(a, <<"-", "D">> \o macro \o <<"=", Q>>
                 \o AddEscapes(Quoted(definition)) \o <<Q>>)

(* operator+(CompileCommand, PrecompiledHeader) *)
PlusPrecompiledHeader(a, header, pch) ==
    LET u == UpdateInputTime(UpdateInputTime(a, header, FALSE), pch, FALSE)
    IN  IF config.compiler = "msvc"
        THEN OpMinusPath(
               OpPlusStr(
                 OpMinusPath(
                   OpPlusStr(PlusIncludeDirectory(u, parent_path(header)), <<"-", "Y", "u">>),
                   filename(header)),
                 <<"-", "F", "p">>),
               pch)
        ELSE u

(* CompilerFlag::KeepLinker: cut the first " -c" out of the text *)
KeepLinker(a) ==
    LET loc == Find(a.text, <<SP, "-", "c">>)
    IN  IF loc = 0 THEN a
        ELSE [a EXCEPT !.text = SubSeq(a.text, 1, loc - 1) \o SubstrFrom(a.text, loc + 3)]

(* CompilerFlag::NoObjectFile: a.text.substr(npos) throws std::out_of_range *)
NoObjectFileThrows(a) == Find(a.text, <<SP>>) = 0

(* CompilerFlag::NoObjectFile: the placeholder object goes right after the  *)
(* first word of the text                                                   *)
NoObjectFile(a) ==
    LET loc  == Find(a.text, <<SP>>)
        tmp  == SubstrFrom(a.text, loc)
        head == PlusObjectFile([a EXCEPT !.text = SubSeq(a.text, 1, loc - 1)], TmpObj)
    IN  [head EXCEPT !.text = @ \o tmp]

(* operator+(CompileCommand, CompilerFlag) for the flags with a table entry *)
CppVersion17(a) ==
    CASE config.compiler = "msvc" ->
             OpPlusStr(a, <<"-","s","t","d",":","c","+","+","1","7">>)
      [] config.compiler \in {"gcc", "clang"} ->
             OpPlusStr(a, <<"-","s","t","d","=","c","+","+","1","7">>)
      [] OTHER -> a

(* std::filesystem::path::extension / replace_extension *)
extension(p) ==
    LET f == filename(p)
        k == LastIndexOf(f, ".")
    IN  IF k <= 1 \/ f = <<".", ".">> THEN <<>> ELSE SubstrFrom(f, k)

replace_extension(p, ext) ==
    LET stem == SubSeq(p, 1, Len(p) - Len(extension(p)))
    IN  IF ext = <<>> THEN stem
        ELSE IF ext[1] = "." THEN stem \o ext ELSE stem \o <<".">> \o ext

(* a variant of operator+(LinkCommand, ObjectFile) that declares no input *)
PlusLinkObjectFileUndeclared(a, p) ==
    LET pos == Find(a.text, <<"-","l","i","n","k">>)
    IN  IF config.compiler = "msvc"
        THEN [a EXCEPT !.text = SubSeq(a.text, 1, pos - 1) \o Quoted(p) \o <<SP>>
                                  \o SubstrFrom(a.text, pos)]
        ELSE OpPlusPath(a, p)

(* operator+(LinkCommand, ObjectFile) *)
PlusLinkObjectFile(a, p) ==
    LET u == UpdateInputTime(a, p, FALSE)
        pos == Find(a.text, <<"-","l","i","n","k">>)
    IN  IF config.compiler = "msvc"
        THEN [u EXCEPT !.text = SubSeq(a.text, 1, pos - 1) \o Quoted(p) \o <<SP>>
                                  \o SubstrFrom(a.text, pos)]
        ELSE OpPlusPath(u, p)

(* operator+(LinkCommand, StaticLibraryFile) *)
PlusStaticLibraryFile(a, p) ==
    LET u == UpdateInputTime(a, p, TRUE)
        q == IF extension(p) = <<"a">> \/ extension(p) = <<"l","i","b">>
             THEN replace_extension(p, IF config.host = "win32"
                                       THEN <<"l","i","b">> ELSE <<"a">>)
             ELSE p
    IN  OpPlusPath(u, q)

(* operator+(LinkCommand, ExecutableFile) *)
PlusExecutableFile(a, p) ==
    LET u == UpdateOutputTime(a, p, FALSE)
    IN  IF config.compiler = "msvc"
        THEN OpMinusPath(OpPlusStr(u, <<"-","o","u","t",":">>), p)
        ELSE OpPlusPath(OpPlusStr(u, <<"-","o">>), p)

(* operator+(LibraryCommand, ObjectFile) *)
PlusLibObjectFile(a, p) == OpPlusPath(UpdateInputTime(a, p, FALSE), p)

(* operator+(LibraryCommand, StaticLibraryFile) *)
PlusLibStaticLibraryFile(a, p) ==
    LET u == UpdateOutputTime(a, p, FALSE)
    IN  IF config.compiler = "msvc"
        THEN OpMinusPath(OpPlusStr(u, <<"-","o","u","t",":">>), p)
        ELSE OpPlusPath(u, p)

(* AddDefaultOutputToLinker: the executable named after the first argument  *)
(* of the compile text that does not start with '-'                         *)
AddDefaultOutputToLinker(a, b) ==
    IF Find(b.text, <<SP, "-", "o">>) # 0 THEN b
    ELSE LET hits == { i \in 1 .. (Len(a.text) - 1) :
                         /\ a.text[i] = SP
                         /\ a.text[i + 1] # SP
                         /\ a.text[i + 1] # "-" }
         IN  IF hits = {} THEN b
             ELSE LET i    == SetMin(hits)
                      quot == a.text[i + 1] = Q
                      rest == SubstrFrom(a.text, IF quot THEN i + 2 ELSE i + 1)
                      n    == Find(rest, IF quot THEN <<Q>> ELSE <<SP>>)
                      file == IF n = 0 THEN rest ELSE SubSeq(rest, 1, n - 1)
                  IN  PlusExecutableFile(b,
                          replace_extension(file, IF config.host = "win32"
                                                  THEN <<"e","x","e">> ELSE <<>>))

(* the marker from which the link text is spliced into the compile text *)
LinkMarker == IF config.compiler = "msvc" THEN <<"-","l","i","n","k">> ELSE <<SP>>

(* operator+(CompileCommand, AddLinkCommand): substr(npos) throws *)
AddLinkCommandThrows(a, lc) ==
    \/ NoObjectFileThrows(KeepLinker(a))
    \/ Find(lc.text, LinkMarker) = 0

(* operator+(CompileCommand, AddLinkCommand) *)
PlusAddLinkCommand(a, lc) ==
    OpPlusStr(NoObjectFile(KeepLinker(a)),
              SubstrFrom(AddDefaultOutputToLinker(a, lc).text, Find(lc.text, LinkMarker)))

----------------------------------------------------------------------------
(* The flag tables of operator+(CompileCommand, CompilerFlag) and           *)
(* operator+(LinkCommand, LinkerFlag), and what the operators log           *)

CompilerFlags == {"OptimizeSpeed", "OptimizeSpace", "KeepLinker", "Debug",
                  "PositionIndependentCode", "CPPVersion14", "CPPVersion17",
                  "CPPVersion20", "NoObjectFile"}
LinkerFlags == {"OutputDynamicLibrary", "Debug"}

(* the case labels that exist only under a detected compiler *)
TableFlags == {"OptimizeSpeed", "OptimizeSpace", "Debug",
               "CPPVersion14", "CPPVersion17", "CPPVersion20"}

CppVersionText(n) ==
    <<"-","s","t","d", IF config.compiler = "msvc" THEN ":" ELSE "=", "c","+","+","1", n>>

CompilerFlagText(f) ==
    CASE f = "OptimizeSpeed" -> <<"-","O","2">>
      [] f = "OptimizeSpace" ->
             IF config.compiler = "msvc" THEN <<"-","O","1">> ELSE <<"-","O","s">>
      [] f = "Debug" ->
             IF config.compiler = "msvc" THEN <<"-","Z","i">> ELSE <<"-","g">>
      [] f = "CPPVersion14" -> CppVersionText("4")
      [] f = "CPPVersion17" -> CppVersionText("7")
      [] f = "CPPVersion20" -> <<"-","s","t","d",
                                 IF config.compiler = "msvc" THEN ":" ELSE "=",
                                 "c","+","+","2","0">>

(* the switch reaches its default label *)
CompilerFlagDefault(f) == f \in TableFlags /\ config.compiler = "none"

(* operator+(CompileCommand, CompilerFlag) *)
PlusCompilerFlag(a, f) ==
    CASE f \in TableFlags /\ config.compiler # "none" -> OpPlusStr(a, CompilerFlagText(f))
      [] f = "PositionIndependentCode" ->
             IF config.host = "win32" THEN a ELSE OpPlusStr(a, <<"-","f","P","I","C">>)
      [] f = "KeepLinker" -> KeepLinker(a)
      [] f = "NoObjectFile" -> NoObjectFile(a)
      [] OTHER -> a

(* what operator+(CompileCommand, CompilerFlag) passes to Log *)
CompilerFlagLog(f) ==
    IF CompilerFlagDefault(f)
    THEN <<"CompilerFlag is not supported by your compiler.">>
    ELSE <<>>

LinkerFlagText(f) ==
    CASE f = "OutputDynamicLibrary" ->
             IF config.compiler = "msvc" THEN <<"-","d","l","l">>
             ELSE <<"-","s","h","a","r","e","d">>
      [] f = "Debug" ->
             IF config.compiler = "msvc" THEN <<"-","d","e","b","u","g">> ELSE <<"-","g">>

(* operator+(LinkCommand, LinkerFlag) *)
PlusLinkerFlag(a, f) ==
    IF config.compiler # "none" THEN OpPlusStr(a, LinkerFlagText(f)) ELSE a

(* what operator+(LinkCommand, LinkerFlag) passes to Log *)
LinkerFlagLog(f) ==
    IF config.compiler = "none"
    THEN <<"LinkerFlag is not supported by your compiler.">>
    ELSE <<>>

(* operator+(CompileCommand, PrecompiledHeader) holds no call of Log *)
PrecompiledHeaderLog == <<>>

(* the extension operator+(LinkCommand, DynamicLibraryFile) writes; apple   *)
(* stands for __APPLE__                                                     *)
DynamicExtension(apple) ==
    IF config.host = "win32" THEN <<"d","l","l">>
    ELSE IF apple THEN <<"d","y","l","i","b">> ELSE <<"s","o">>

(* operator+(LinkCommand, DynamicLibraryFile) *)
PlusDynamicLibraryFile(a, p, apple) ==
    PlusStaticLibraryFile(a, replace_extension(p, DynamicExtension(apple)))

----------------------------------------------------------------------------
(* Command::Run *)

NoRun == [called |-> FALSE, spawned |-> FALSE, ret |-> 0, log |-> "none", text |-> <<>>]

(* the statuses a child process may return *)
ExitCodes == {0, 1}

(* what Run(c) yields when the child, if spawned, returns status r *)
Run(c, r) ==
    IF RunSkips(c)
    THEN [called |-> TRUE, spawned |-> FALSE, ret |-> 0,
          log |-> "Command skipped", text |-> <<>>]
    ELSE [called |-> TRUE, spawned |-> TRUE, ret |-> r,
          log |-> "Done", text |-> c.text]

(* a variant of Run in which a failed child ends the call at once *)
RunAfterSystemFatal(ret, lines) ==
    IF ret = 0
    THEN [ret |-> ret, reported |-> lines, log |-> "Done"]
    ELSE [ret |-> ret, reported |-> <<>>, log |-> "none"]

(* Run after std::system has returned ret and the scratch file holds       *)
(* lines: every line is logged as an error, "Done" is logged, ret returned  *)
RunAfterSystem(ret, lines) ==
    [ret |-> ret, reported |-> lines, log |-> "Done"]

----------------------------------------------------------------------------
(* SpecCmd: one Command, composed by declarations and token appends over a *)
(* fixed file system, then run                                              *)

OldBinPath == PathJoin(parent_path(BinPath), filename(BinPath) \o <<".","o","l","d">>)
SrcPath == PathJoin(parent_path(BinPath), SrcName)

Paths == {BinPath, OldBinPath, OldBinPath \o <<".","o","l","d">>, SrcPath, TmpObj,
          Ole32Lib, FileA, FileB, ErrorLog}
EmptyFs == [p \in Paths |-> NoFile]

FileStates == {NoFile} \cup { File(t, "x") : t \in Times }

CmdConfigs == { k \in Configs : ~k.initScript /\ (k.host = "win32" <=> k.compiler = "msvc") }
CmdFiles == {FileA, FileB}

NoDir == [phase |-> "none"]

(* no token has been appended yet *)
NoOp == [name |-> "none"]

InitCmd ==
    /\ config \in CmdConfigs
    /\ \E fa \in FileStates, fb \in FileStates, ft \in {NoFile, File(MaxTime, "x")} :
          fs = [EmptyFs EXCEPT ![FileA] = fa, ![FileB] = fb, ![TmpObj] = ft]
    /\ CLFlags \in {{}, {"Clean"}}
    /\ OtherCLArguments = <<>>
    /\ cmd \in {NewCommand("command", <<>>), CompileCommand, LinkCommand, LibraryCommand}
    /\ ndecl = 0
    /\ missingIn = FALSE
    /\ missingOut = FALSE
    /\ lastRun = NoRun
    /\ argv = <<>> /\ pc = "none" /\ stack = <<>> /\ events = <<>>
    /\ exits = <<>> /\ rebuilds = 0
    /\ dir = NoDir
    /\ op = NoOp

CanDeclare == ~lastRun.called /\ ndecl < MaxDecls

Declared(c, inAbsent, outAbsent) ==
    /\ cmd' = c
    /\ ndecl' = ndecl + 1
    /\ missingIn' = (missingIn \/ inAbsent)
    /\ missingOut' = (missingOut \/ outAbsent)
    /\ UNCHANGED <<sharedVars, lastRun, bootVars, dir, op>>

CmdUpdateInputTime(f, skipOnFail) ==
    /\ CanDeclare
    /\ Declared(UpdateInputTime(cmd, f, skipOnFail), ~exists(f) /\ ~skipOnFail, FALSE)

CmdUpdateOutputTime(f, skipOnFail) ==
    /\ CanDeclare
    /\ Declared(UpdateOutputTime(cmd, f, skipOnFail), FALSE, ~exists(f) /\ ~skipOnFail)

CmdPlusSourceFile(f) ==
    /\ CanDeclare /\ cmd.kind = "compile"
    /\ Declared(PlusSourceFile(cmd, f), ~exists(f), FALSE)

CmdPlusObjectFile(f) ==
    /\ CanDeclare
    /\ \/ cmd.kind = "compile" /\ Declared(PlusObjectFile(cmd, f), FALSE, ~exists(f))
       \/ cmd.kind = "link" /\ Declared(PlusLinkObjectFile(cmd, f), ~exists(f), FALSE)
       \/ cmd.kind = "library" /\ Declared(PlusLibObjectFile(cmd, f), ~exists(f), FALSE)

CmdPlusPrecompiledHeader(h, g) ==
    /\ CanDeclare /\ cmd.kind = "compile"
    /\ Declared(PlusPrecompiledHeader(cmd, h, g), ~exists(h) \/ ~exists(g), FALSE)

CmdPlusNoObjectFile ==
    /\ CanDeclare /\ cmd.kind = "compile"
    /\ ~NoObjectFileThrows(cmd)
    /\ Declared(NoObjectFile(cmd), FALSE, ~exists(TmpObj))

CmdPlusStaticLibraryFile(f) ==
    /\ CanDeclare
    /\ \/ cmd.kind = "link" /\ Declared(PlusStaticLibraryFile(cmd, f), FALSE, FALSE)
       \/ cmd.kind = "library" /\ Declared(PlusLibStaticLibraryFile(cmd, f), FALSE, ~exists(f))

CmdPlusExecutableFile(f) ==
    /\ CanDeclare /\ cmd.kind = "link"
    /\ Declared(PlusExecutableFile(cmd, f), FALSE, ~exists(f))

CmdRun ==
    /\ ~lastRun.called
    /\ \E r \in ExitCodes : lastRun' = Run(cmd, r)
    /\ UNCHANGED <<sharedVars, cmd, ndecl, missingIn, missingOut, bootVars, dir, op>>

NextCmd ==
    \/ \E f \in CmdFiles, k \in BOOLEAN : CmdUpdateInputTime(f, k)
    \/ \E f \in CmdFiles, k \in BOOLEAN : CmdUpdateOutputTime(f, k)
    \/ \E f \in CmdFiles : CmdPlusSourceFile(f)
    \/ \E f \in CmdFiles : CmdPlusObjectFile(f)
    \/ CmdPlusPrecompiledHeader(FileA, FileB)
    \/ CmdPlusNoObjectFile
    \/ \E f \in CmdFiles : CmdPlusStaticLibraryFile(f)
    \/ \E f \in CmdFiles : CmdPlusExecutableFile(f)
    \/ CmdRun

SpecCmd == InitCmd /\ [][NextCmd]_vars

----------------------------------------------------------------------------
(* Command line arguments *)

NoRebuildArg    == <<"-","n","o","r","e","b","u","i","l","d">>
NoInitScriptArg == <<"-","n","o","i","n","i","t","s","c","r","i","p","t">>
DebugArg        == <<"-","d","e","b","u","g">>
SilentArg       == <<"-","s","i","l","e","n","t">>
CleanArg        == <<"-","c","l","e","a","n">>
PlainArg        == <<"x">>

(* ConsumeFlags, which sets bits of CLFlags and pushes onto                 *)
(* OtherCLArguments as it finds them (start); argv[1] of the model is       *)
(* argv[0] of the program                                                   *)
ConsumeFlagsInto(start, av) ==
    LET step[i \in 1 .. Max(Len(av), 1)] ==
            LET prev == IF i <= 1
                        THEN start
                        ELSE step[i - 1]
            IN  IF i <= 1 \/ i > Len(av) THEN prev
                ELSE CASE av[i] = NoRebuildArg ->
                              [prev EXCEPT !.flags = @ \cup {"NoRebuild"}]
                       [] av[i] = NoInitScriptArg ->
                              [prev EXCEPT !.flags = @ \cup {"NoInitScript"}]
                       [] av[i] = DebugArg ->
                              [prev EXCEPT !.flags = @ \cup {"Debug"}]
                       [] av[i] = SilentArg ->
                              [prev EXCEPT !.flags = @ \cup {"Silent"}]
                       [] av[i] = CleanArg ->
                              [prev EXCEPT !.flags = @ \cup {"Clean"}]
                       [] OTHER ->
                              [prev EXCEPT !.others = Append(@, av[i])]
    IN  step[Max(Len(av), 1)]

(* a variant of the parse in Init without the reset and the clear *)
ConsumeFlagsKeeping(av) ==
    ConsumeFlagsInto([flags |-> CLFlags, others |-> OtherCLArguments], av)

(* lines 2465-2467: CLFlags.reset(); OtherCLArguments.clear();              *)
(* ConsumeFlags(argc, argv)                                                 *)
ConsumeFlags(av) == ConsumeFlagsInto([flags |-> {}, others |-> <<>>], av)

(* AddArgs: every argument after the program name, quoted *)
AddArgs(c, av) ==
    LET step[i \in 1 .. Max(Len(av), 1)] ==
            IF i <= 1 THEN c
            ELSE OpPlusStr(step[i - 1], Quoted(av[i]))
    IN  step[Max(Len(av), 1)]

(* The command line the shell hands to the launched program: words are      *)
(* separated by blanks outside double quotes, and the quotes are removed.   *)
ShellWords(t) ==
    LET scan[i \in 0 .. Len(t)] ==
            IF i = 0
            THEN [words |-> <<>>, cur |-> <<>>, open |-> FALSE, inq |-> FALSE]
            ELSE LET st == scan[i - 1]
                     ch == t[i]
                 IN  CASE ch = Q ->
                              [st EXCEPT !.inq = ~@, !.open = TRUE]
                       [] ch = SP /\ ~st.inq ->
                              IF st.open
                              THEN [words |-> Append(st.words, st.cur), cur |-> <<>>,
                                    open |-> FALSE, inq |-> FALSE]
                              ELSE st
                       [] OTHER ->
                              [st EXCEPT !.cur = Append(@, ch), !.open = TRUE]
        end == scan[Len(t)]
    IN  IF end.open THEN Append(end.words, end.cur) ELSE end.words

(* the part of a chained command text after its last "&&" *)
LastChained(t) ==
    LET hits == { i \in 1 .. (Len(t) - 1) : t[i] = "&" /\ t[i + 1] = "&" }
    IN  IF hits = {} THEN t ELSE SubstrFrom(t, SetMax(hits) + 2)

----------------------------------------------------------------------------
(* Spec: nob::Init in a chain of processes. The running process is the top  *)
(* of the chain; its parents are blocked in std::system until it ends.      *)

InitScriptPath == <<"i">>
InitScriptMacro == <<"N","O","B","P","P","_","I","N","I","T","_","S","C","R","I","P","T">>

(* Init::Init, lines 2470-2471 and 2487 *)
binPath == argv[1]
srcPath == PathJoin(parent_path(binPath), SrcName)
oldBinPath == PathJoin(parent_path(binPath), filename(binPath) \o <<".","o","l","d">>)

(* the compile half and the link half of the rebuild command, lines 2503-2512 *)
RebuildCompile ==
    LET base == CppVersion17(PlusSourceFile(CompileCommand, srcPath))
    IN  IF config.initScript
        THEN PlusMacroDefinition(base, InitScriptMacro, InitScriptPath)
        ELSE base

RebuildLink ==
    PlusExecutableFile(
        IF config.host = "win32"
        THEN PlusStaticLibraryFile(LinkCommand, Ole32Lib)
        ELSE LinkCommand,
        binPath)

RebuildCommand == PlusAddLinkCommand(RebuildCompile, RebuildLink)
RebuildThrows == AddLinkCommandThrows(RebuildCompile, RebuildLink)

(* a variant of the relaunch command that forwards the arguments only *)
RelaunchCommandPlain ==
    AddArgs(OpPlusPath(NewCommand("command", <<>>), binPath), argv)

(* newBinCmd of the rebuild relaunch, lines 2514-2516 *)
RelaunchCommand ==
    AddArgs(OpPlusStr(OpPlusPath(NewCommand("command", <<>>), binPath), NoRebuildArg), argv)

(* the init-script command, lines 2476-2479 *)
(* a variant of the init-script relaunch that forwards the arguments only *)
InitScriptCommandPlain ==
    OpPlusCmd(OpPlusPath(NewCommand("command", <<>>), InitScriptPath),
              AddArgs(OpPlusPath(NewCommand("command", <<>>), binPath), argv))

(* lines 2476-2479: the init script, then the binary with -noinitscript *)
InitScriptCommand ==
    OpPlusCmd(OpPlusPath(NewCommand("command", <<>>), InitScriptPath),
              AddArgs(OpPlusStr(OpPlusPath(NewCommand("command", <<>>), binPath),
                                NoInitScriptArg), argv))

Frame(resume) ==
    [argv |-> argv, CLFlags |-> CLFlags, others |-> OtherCLArguments,
     events |-> Append(events, "launch"), resume |-> resume]

(* std::system(text) starts the program named by the text, if it exists *)
Launch(text, resume) ==
    LET av == ShellWords(LastChained(text))
    IN  IF av # <<>> /\ exists(av[1])
        THEN /\ stack' = Append(stack, Frame(resume))
             /\ argv' = av
             /\ CLFlags' = {}
             /\ OtherCLArguments' = <<>>
             /\ events' = <<>>
             /\ pc' = "start"
        ELSE /\ pc' = resume
             /\ events' = Append(events, "launchFailed")
             /\ UNCHANGED <<stack, argv, CLFlags, OtherCLArguments>>

Ended(how, status) ==
    /\ exits' = Append(exits, [how |-> how, status |-> status,
                               depth |-> Len(stack), events |-> events'])
    /\ pc' = "ended"

idleCmd == <<cmd, ndecl, missingIn, missingOut>>

Has(e) == \E i \in 1 .. Len(events) : events[i] = e

(* a variant of the comparison that also rebuilds on equal times *)
BinaryOlderOrEqual == last_write_time(binPath) <= last_write_time(srcPath)

(* line 2495: the binary is older than the driving source *)
BinaryOlder == last_write_time(binPath) < last_write_time(srcPath)

(* history: what the process found when it entered Init *)
EntryEvents ==
    <<IF ~exists(binPath) THEN "entryNoBinary"
      ELSE IF NoRebuildArg \notin { argv[i] : i \in 2 .. Len(argv) }
              /\ exists(srcPath)
              /\ last_write_time(binPath) < last_write_time(srcPath)
           THEN "entryStale" ELSE "entryFresh">>
    \o (IF exists(oldBinPath) THEN <<"entryBackup">> ELSE <<>>)

(* a variant that moves the old backup out of the way instead of removing it *)
DeleteOldRotate(f) ==
    [f EXCEPT ![oldBinPath \o <<".","o","l","d">>] = f[oldBinPath], ![oldBinPath] = NoFile]

(* line 2491: std::filesystem::remove(oldBinPath) *)
DeleteOld(f) == [f EXCEPT ![oldBinPath] = NoFile]

(* a variant without the std::exit(0): Init falls through to its last step *)
AfterRelaunchFallThrough == "debug"

(* line 2518: std::exit(0) follows the relaunch *)
AfterRelaunch == "exit0"

(* lines 2458-2467: argc < 1 returns at once; otherwise the switches are reset and parsed *)
InitConsumeFlags ==
    /\ pc = "start"
    /\ IF Len(argv) < 1
       THEN /\ pc' = "returned"
            /\ UNCHANGED <<CLFlags, OtherCLArguments, events>>
       ELSE /\ CLFlags' = ConsumeFlags(argv).flags
            /\ OtherCLArguments' = ConsumeFlags(argv).others
            /\ events' = events \o EntryEvents
            /\ pc' = "initscript"
    /\ UNCHANGED <<config, fs, idleCmd, lastRun, argv, stack, exits, rebuilds, dir, op>>

(* lines 2473-2482: with NOBPP_INIT_SCRIPT, run the script and this binary again *)
InitScriptRun ==
    /\ pc = "initscript"
    /\ config.initScript /\ "NoInitScript" \notin CLFlags
    /\ \E scriptOk \in BOOLEAN :
          LET r == Run(InitScriptCommand, IF scriptOk THEN 0 ELSE 1)
          IN  /\ lastRun' = r
              /\ IF r.spawned /\ scriptOk
                 THEN Launch(r.text, "exit0")
                 ELSE /\ pc' = "exit0"
                      /\ events' = Append(events, "initScriptFailed")
                      /\ UNCHANGED <<stack, argv, CLFlags, OtherCLArguments>>
    /\ UNCHANGED <<config, fs, idleCmd, exits, rebuilds, dir, op>>

InitScriptSkip ==
    /\ pc = "initscript"
    /\ ~(config.initScript /\ "NoInitScript" \notin CLFlags)
    /\ pc' = "check"
    /\ UNCHANGED <<sharedVars, cmdVars, argv, stack, events, exits, rebuilds, dir, op>>

(* lines 2484-2492: the rebuild can be checked; an existing backup is deleted *)
RebuildCheck ==
    /\ pc = "check"
    /\ IF "NoRebuild" \notin CLFlags /\ exists(srcPath)
       THEN /\ IF exists(oldBinPath)
               THEN /\ fs' = DeleteOld(fs)
                    /\ events' = Append(events, "deleteOld")
               ELSE UNCHANGED <<fs, events>>
            /\ pc' = "compare"
       ELSE /\ pc' = "debug"
            /\ UNCHANGED <<fs, events>>
    /\ UNCHANGED <<config, CLFlags, OtherCLArguments, cmdVars, argv, stack, exits, rebuilds, dir, op>>

(* line 2495: last_write_time throws when the binary path does not exist *)
CompareTimes ==
    /\ pc = "compare"
    /\ IF ~exists(binPath)
       THEN /\ events' = Append(events, "terminate")
            /\ Ended("terminate", 1)
       ELSE /\ pc' = IF BinaryOlder THEN "rename" ELSE "debug"
            /\ UNCHANGED <<events, exits>>
    /\ UNCHANGED <<sharedVars, cmdVars, argv, stack, rebuilds, dir, op>>

(* a variant of the rename that loses the file *)
renameLosing(f, from, to) == [f EXCEPT ![from] = NoFile]

(* std::filesystem::rename(from, to) *)
rename(f, from, to) == [f EXCEPT ![to] = f[from], ![from] = NoFile]

(* line 2500 *)
RenameBinary ==
    /\ pc = "rename"
    /\ fs' = rename(fs, binPath, oldBinPath)
    /\ events' = Append(events, "rename")
    /\ pc' = "rebuild"
    /\ UNCHANGED <<config, CLFlags, OtherCLArguments, cmdVars, argv, stack, exits, rebuilds, dir, op>>

(* what a successful rebuild leaves behind: the binary at the path of the   *)
(* executable-output flag, and with cl -Fo the placeholder object as well    *)
Compiled(t) ==
    [fs EXCEPT ![binPath] = File(t, "rebuilt"),
               ![TmpObj] = IF config.compiler = "msvc" THEN File(t, "obj") ELSE @]

(* lines 2503-2512: the rebuild command is composed and run; its status is dropped *)
Rebuild ==
    /\ pc = "rebuild"
    /\ IF RebuildThrows
       THEN /\ events' = Append(events, "terminate")
            /\ Ended("terminate", 1)
            /\ UNCHANGED <<fs, lastRun, rebuilds>>
       ELSE \E r \in ExitCodes, t \in {0, MaxTime} :
              LET res == Run(RebuildCommand, r)
              IN  /\ lastRun' = res
                  /\ rebuilds' = rebuilds + 1
                  /\ fs' = IF res.spawned /\ res.ret = 0
                           THEN Compiled(t)
                           ELSE fs
                  /\ events' = Append(events,
                                  IF ~res.spawned THEN "rebuildSkipped"
                                  ELSE IF res.ret = 0 THEN "rebuildOk" ELSE "rebuildFailed")
                  /\ pc' = "relaunch"
                  /\ UNCHANGED exits
    /\ UNCHANGED <<config, CLFlags, OtherCLArguments, idleCmd, argv, stack, dir, op>>

(* lines 2514-2517: the relaunch, blocking until the new process ends *)
Relaunch ==
    /\ pc = "relaunch"
    /\ LET res == Run(RelaunchCommand, 0)
       IN  /\ lastRun' = res
           /\ IF res.spawned
              THEN Launch(res.text, AfterRelaunch)
              ELSE /\ pc' = AfterRelaunch
                   /\ events' = Append(events, "relaunchSkipped")
                   /\ UNCHANGED <<stack, argv, CLFlags, OtherCLArguments>>
    /\ UNCHANGED <<config, fs, idleCmd, exits, rebuilds, dir, op>>

(* lines 2480 and 2518: std::exit(0) *)
Exit0 ==
    /\ pc = "exit0"
    /\ events' = Append(events, "exit")
    /\ Ended("exit", 0)
    /\ UNCHANGED <<sharedVars, cmdVars, argv, stack, rebuilds, dir, op>>

(* lines 2523-2528: -debug is applied to the default commands and Init returns *)
ApplyDebug ==
    /\ pc = "debug"
    /\ events' = IF "Debug" \in CLFlags THEN Append(events, "debugFlags") ELSE events
    /\ pc' = "returned"
    /\ UNCHANGED <<sharedVars, cmdVars, argv, stack, exits, rebuilds, dir, op>>

(* the caller of Init: main's build logic, then return 0 *)
CallerMain ==
    /\ pc = "returned"
    /\ events' = Append(events, "main")
    /\ Ended("return", 0)
    /\ UNCHANGED <<sharedVars, cmdVars, argv, stack, rebuilds, dir, op>>

(* std::system returns in the parent once the launched process has ended *)
ChildEnded ==
    /\ pc = "ended"
    /\ stack # <<>>
    /\ LET f == stack[Len(stack)]
       IN  /\ argv' = f.argv
           /\ CLFlags' = f.CLFlags
           /\ OtherCLArguments' = f.others
           /\ events' = Append(f.events, "childEnded")
           /\ pc' = f.resume
    /\ stack' = SubSeq(stack, 1, Len(stack) - 1)
    /\ UNCHANGED <<config, fs, cmdVars, exits, rebuilds, dir, op>>

SeqsUpTo(S, n) == UNION { [1 .. k -> S] : k \in 0 .. n }

ArgPool == {NoRebuildArg, NoInitScriptArg, DebugArg, PlainArg}

BootConfigs == { k \in Configs : k.host = "win32" <=> k.compiler \in {"msvc", "none"} }

Init ==
    /\ config \in BootConfigs
    /\ argv \in {<<>>} \cup { <<BinPath>> \o rest : rest \in SeqsUpTo(ArgPool, MaxArgs) }
    /\ \E fb \in {NoFile} \cup { File(t, "bin") : t \in Times },
          fc \in {NoFile} \cup { File(t, "src") : t \in Times },
          fo \in {NoFile, File(0, "backup")},
          ft \in {NoFile, File(MaxTime, "obj")} :
          fs = [EmptyFs EXCEPT ![BinPath] = fb, ![SrcPath] = fc,
                               ![OldBinPath] = fo, ![TmpObj] = ft]
    /\ CLFlags = {}
    /\ OtherCLArguments = <<>>
    /\ cmd = NewCommand("command", <<>>)
    /\ ndecl = 0 /\ missingIn = FALSE /\ missingOut = FALSE
    /\ lastRun = NoRun
    /\ pc = "start" /\ stack = <<>> /\ events = <<>> /\ exits = <<>> /\ rebuilds = 0
    /\ dir = NoDir
    /\ op = NoOp

Next ==
    \/ InitConsumeFlags
    \/ InitScriptRun
    \/ InitScriptSkip
    \/ RebuildCheck
    \/ CompareTimes
    \/ RenameBinary
    \/ Rebuild
    \/ Relaunch
    \/ Exit0
    \/ ApplyDebug
    \/ CallerMain
    \/ ChildEnded

Spec == Init /\ [][Next]_vars

----------------------------------------------------------------------------
(* SpecDir: one call of CompileDirectory(src, obj, cmd, runAsync)           *)

SrcRoot == <<"s">>
ObjRoot == <<"o">>
DigitChar == <<"1", "2", "3", "4", "5", "6", "7", "8", "9">>
CppExt == <<".", "c", "p", "p">>
ObjExt == <<".", "o", "b", "j">>

SrcFile(i) == PathJoin(SrcRoot, <<DigitChar[i]>> \o CppExt)
HeaderFile == PathJoin(SrcRoot, <<"h", ".", "h">>)

(* a source file in a subdirectory of src that has the name of SrcFile(1) *)
SubSrc == PathJoin(PathJoin(SrcRoot, <<"d">>), filename(SrcFile(1)))

(* the entries of the source tree, in the order the recursive directory     *)
(* iterator yields them                                                     *)
TreeEntries ==
    [i \in 1 .. (MaxFiles + 2) |->
        IF i = 1 THEN HeaderFile
        ELSE IF i <= MaxFiles + 1 THEN SrcFile(i - 1) ELSE SubSrc]

(* the copy_if predicate, lines 2384-2387 *)
IsCppFile(p) == exists(p) /\ Len(p) >= 4 /\ SubstrFrom(p, Len(p) - 3) = CppExt

(* obj / p.filename().replace_extension(".obj") *)
ObjectPathOf(p) == PathJoin(ObjRoot, replace_extension(filename(p), ObjExt))

(* the command of one file, line 2393 *)
FileCommand(c, p) == PlusObjectFile(PlusSourceFile(c, p), ObjectPathOf(p))

(* the stderr scratch file of a Run, lines 1744 and 1750 *)
ScratchFile(k) == PathJoin(CWD, ErrorLog)

NewWorker ==
    [pc |-> "new", runs |-> 0, spawned |-> FALSE, status |-> 0, ret |-> 0,
     scratch |-> <<>>, wrote |-> <<>>, reported |-> <<>>, log |-> "none"]

DirConfigs == { k \in CmdConfigs : k.compiler \in {"msvc", "gcc"} }

InitDir ==
    /\ config \in DirConfigs
    /\ CLFlags \in {{}, {"Clean"}}
    /\ OtherCLArguments = <<>>
    /\ \E n \in 0 .. MaxFiles, objs \in SUBSET (1 .. MaxFiles),
          late \in SUBSET (1 .. MaxFiles) :
          /\ objs \subseteq 1 .. n
          /\ late \subseteq 1 .. n
          /\ fs = [p \in {HeaderFile} \cup { SrcFile(i) : i \in 1 .. MaxFiles }
                           \cup { ObjectPathOf(SrcFile(i)) : i \in 1 .. MaxFiles } |->
                     IF p = HeaderFile THEN File(0, "hdr")
                     ELSE IF \E i \in late : p = SrcFile(i) THEN File(FloatStep, "src")
                     ELSE IF \E i \in 1 .. n : p = SrcFile(i) THEN File(0, "src")
                     ELSE IF \E i \in objs : p = ObjectPathOf(SrcFile(i))
                          THEN File(FloatStep + 1, "obj")
                          ELSE NoFile]
    /\ \E a \in BOOLEAN :
          dir = [phase |-> "discover", async |-> a, files |-> <<>>, i |-> 1, j |-> 1,
                 w |-> <<>>, log |-> [f \in {ScratchFile(1)} |-> <<>>]]
    /\ cmd = CompileCommand
    /\ ndecl = 0 /\ missingIn = FALSE /\ missingOut = FALSE
    /\ lastRun = NoRun
    /\ argv = <<>> /\ pc = "none" /\ stack = <<>> /\ events = <<>>
    /\ exits = <<>> /\ rebuilds = 0
    /\ op = NoOp

dirIdle == <<config, CLFlags, OtherCLArguments, cmdVars, bootVars, op>>

(* lines 2380-2388: the .cpp files under src are collected *)
Discover ==
    /\ dir.phase = "discover"
    /\ LET out == SelectSeq(TreeEntries, IsCppFile)
       IN  dir' = [dir EXCEPT !.files = out,
                              !.w = [k \in 1 .. Len(out) |-> NewWorker],
                              !.phase = IF dir.async THEN "spawn" ELSE "seq"]
    /\ UNCHANGED <<fs, dirIdle>>

(* ParallelForEach, runAsync: threads.push_back(std::thread(fn, i)) *)
StartThread ==
    /\ dir.phase = "spawn"
    /\ IF dir.i <= Len(dir.files)
       THEN dir' = [dir EXCEPT !.w[dir.i].pc = "ready", !.i = @ + 1]
       ELSE dir' = [dir EXCEPT !.phase = "join"]
    /\ UNCHANGED <<fs, dirIdle>>

(* a variant of join that does not wait for the thread *)
JoinReturnsEarly(j) == dir.w[j].pc # "new"

(* t.join() returns once thread j has finished *)
JoinReturns(j) == dir.w[j].pc = "done"

(* ParallelForEach, runAsync: for (std::thread& t : threads) t.join() *)
JoinThread ==
    /\ dir.phase = "join"
    /\ IF dir.j <= Len(dir.files)
       THEN /\ JoinReturns(dir.j)
            /\ dir' = [dir EXCEPT !.j = @ + 1]
       ELSE dir' = [dir EXCEPT !.phase = "returned"]
    /\ UNCHANGED <<fs, dirIdle>>

(* a variant of the loop that does not wait for the call before *)
CallReturnedAtOnce(i) == TRUE

(* fn(i) returns to the loop once the call has finished *)
CallReturned(i) == IF i = 1 THEN TRUE ELSE dir.w[i - 1].pc = "done"

(* ParallelForEach, not runAsync: for (T& i : vec) fn(i) *)
CallNext ==
    /\ dir.phase = "seq"
    /\ CallReturned(Min(dir.i, Len(dir.files) + 1))
    /\ IF dir.i <= Len(dir.files)
       THEN dir' = [dir EXCEPT !.w[dir.i].pc = "ready", !.i = @ + 1]
       ELSE dir' = [dir EXCEPT !.phase = "returned"]
    /\ UNCHANGED <<fs, dirIdle>>

(* Command::Run up to std::system: skip, or start the child with its       *)
(* stderr redirected (and so truncated) to the scratch file                 *)
WorkerRun(k) ==
    /\ dir.w[k].pc = "ready"
    /\ LET res == Run(FileCommand(cmd, dir.files[k]), 0)
       IN  IF res.spawned
           THEN dir' = [dir EXCEPT !.w[k].pc = "child", !.w[k].runs = @ + 1,
                                   !.w[k].spawned = TRUE,
                                   !.w[k].scratch = ScratchFile(k),
                                   !.log[ScratchFile(k)] = <<>>]
           ELSE dir' = [dir EXCEPT !.w[k].pc = "done", !.w[k].runs = @ + 1,
                                   !.w[k].ret = res.ret, !.w[k].log = res.log]
    /\ UNCHANGED <<fs, dirIdle>>

(* the child compiler ends: on success it leaves the object file, on       *)
(* failure it has written its diagnostics to its stderr                     *)
ChildExit(k, r) ==
    /\ dir.w[k].pc = "child"
    /\ dir' = [dir EXCEPT !.w[k].pc = "read", !.w[k].status = r,
                          !.w[k].wrote = IF r = 0 THEN <<>> ELSE <<k>>,
                          !.log[dir.w[k].scratch] = IF r = 0 THEN @ ELSE Append(@, k)]
    /\ fs' = IF r = 0
             THEN [fs EXCEPT ![ObjectPathOf(dir.files[k])] = File(MaxTime, "obj")]
             ELSE fs
    /\ UNCHANGED dirIdle

(* Command::Run after std::system: the scratch file is read and logged *)
WorkerRead(k) ==
    /\ dir.w[k].pc = "read"
    /\ LET res == RunAfterSystem(dir.w[k].status, dir.log[dir.w[k].scratch])
       IN  dir' = [dir EXCEPT !.w[k].pc = "done",
                              !.w[k].reported = res.reported,
                              !.w[k].log = res.log,
                              !.w[k].ret = res.ret]
    /\ UNCHANGED <<fs, dirIdle>>

NextDir ==
    \/ Discover
    \/ StartThread
    \/ JoinThread
    \/ CallNext
    \/ \E k \in 1 .. MaxFiles : k <= Len(dir.w) /\ WorkerRun(k)
    \/ \E k \in 1 .. MaxFiles, r \in ExitCodes : k <= Len(dir.w) /\ ChildExit(k, r)
    \/ \E k \in 1 .. MaxFiles : k <= Len(dir.w) /\ WorkerRead(k)

SpecDir == InitDir /\ [][NextDir]_vars

----------------------------------------------------------------------------
(* SpecTree: CompileDirectory over a source tree with a subdirectory        *)

InitTree ==
    /\ config \in DirConfigs
    /\ CLFlags \in {{}, {"Clean"}}
    /\ OtherCLArguments = <<>>
    /\ \E n \in 0 .. (MaxFiles - 1), sub \in BOOLEAN,
          objs \in SUBSET (1 .. MaxFiles), late \in SUBSET (1 .. MaxFiles) :
          /\ objs \subseteq 1 .. n
          /\ late \subseteq 1 .. n
          /\ fs = [p \in {HeaderFile, SubSrc} \cup { SrcFile(i) : i \in 1 .. MaxFiles }
                           \cup { ObjectPathOf(SrcFile(i)) : i \in 1 .. MaxFiles } |->
                     IF p = HeaderFile THEN File(0, "hdr")
                     ELSE IF p = SubSrc THEN (IF sub THEN File(0, "src") ELSE NoFile)
                     ELSE IF \E i \in late : p = SrcFile(i) THEN File(FloatStep, "src")
                     ELSE IF \E i \in 1 .. n : p = SrcFile(i) THEN File(0, "src")
                     ELSE IF \E i \in objs : p = ObjectPathOf(SrcFile(i))
                          THEN File(FloatStep + 1, "obj")
                          ELSE NoFile]
    /\ \E a \in BOOLEAN :
          dir = [phase |-> "discover", async |-> a, files |-> <<>>, i |-> 1, j |-> 1,
                 w |-> <<>>, log |-> [f \in {ScratchFile(1)} |-> <<>>]]
    /\ cmd = CompileCommand
    /\ ndecl = 0 /\ missingIn = FALSE /\ missingOut = FALSE
    /\ lastRun = NoRun
    /\ argv = <<>> /\ pc = "none" /\ stack = <<>> /\ events = <<>>
    /\ exits = <<>> /\ rebuilds = 0
    /\ op = NoOp

SpecTree == InitTree /\ [][NextDir]_vars

----------------------------------------------------------------------------
(* SpecArgs: the arguments of one invocation, parsed by ConsumeFlags, sent  *)
(* through the relaunch command line and parsed again by the launched       *)
(* process.                                                                 *)

SpacedArg == <<"x", SP, "y">>
QuotedArg == <<"x", Q, "y">>
EmptyArg  == <<>>

RichArgPool == ArgPool \cup {SilentArg, CleanArg, SpacedArg, QuotedArg, EmptyArg}

InitArgs ==
    /\ config \in { k \in BootConfigs : ~k.initScript }
    /\ argv \in { <<BinPath>> \o rest : rest \in SeqsUpTo(RichArgPool, MaxArgs) }
    /\ fs = [EmptyFs EXCEPT ![BinPath] = File(0, "bin")]
    /\ CLFlags \in {{}, {"Silent"}}
    /\ OtherCLArguments \in {<<>>, <<PlainArg>>}
    /\ cmd = NewCommand("command", <<>>)
    /\ ndecl = 0 /\ missingIn = FALSE /\ missingOut = FALSE
    /\ lastRun = NoRun
    /\ pc = "start" /\ stack = <<>> /\ events = <<>> /\ exits = <<>> /\ rebuilds = 0
    /\ dir = NoDir
    /\ op = NoOp

argsIdle == <<config, fs, cmdVars, events, exits, rebuilds, dir, op>>

(* lines 2464-2467 in the original process *)
ArgsConsumeFlags ==
    /\ pc = "start"
    /\ CLFlags' = ConsumeFlags(argv).flags
    /\ OtherCLArguments' = ConsumeFlags(argv).others
    /\ pc' = "parsed"
    /\ UNCHANGED <<argv, stack, argsIdle>>

(* lines 2514-2517: the launched process gets the words of newBinCmd's text *)
ArgsRelaunch ==
    /\ pc = "parsed"
    /\ stack' = Append(stack, Frame("exit0"))
    /\ argv' = ShellWords(RelaunchCommand.text)
    /\ CLFlags' = {}
    /\ OtherCLArguments' = <<>>
    /\ pc' = "relaunched"
    /\ UNCHANGED argsIdle

(* lines 2464-2467 in the launched process *)
ArgsConsumeAgain ==
    /\ pc = "relaunched"
    /\ CLFlags' = ConsumeFlags(argv).flags
    /\ OtherCLArguments' = ConsumeFlags(argv).others
    /\ pc' = "reparsed"
    /\ UNCHANGED <<argv, stack, argsIdle>>

NextArgs ==
    \/ ArgsConsumeFlags
    \/ ArgsRelaunch
    \/ ArgsConsumeAgain

SpecArgs == InitArgs /\ [][NextArgs]_vars

----------------------------------------------------------------------------
(* SpecTok: one command, built by appending up to MaxToks tokens. op holds  *)
(* the last token: its name, its argument, what the operator logged,        *)
(* whether it threw, the first SourceFile appended so far and whether a     *)
(* link command has been merged in.                                         *)

MaxToks == 3

TokStrings == {<<>>, <<"a">>, <<"-", "b">>}
SpacedPath == <<"d", SP, "e">>
TokPaths == {FileA, SpacedPath}
IncDir == <<"i">>
LibA == <<"l", ".", "a">>
LibLib == <<"l", ".", "l", "i", "b">>
LibSo == <<"l", ".", "s", "o">>
LibPaths == {LibA, LibLib, LibSo}

(* commands to chain onto cmd, with staleness scalars of their own *)
ChainPool ==
    { NewCommand("command", <<>>),
      [NewCommand("command", <<"q">>) EXCEPT !.latestInput = FLT_MAX],
      [NewCommand("command", <<"q", SP, "r">>) EXCEPT !.earliestOutput = 0] }

(* link commands to merge into a compile command *)
LinkPool ==
    { LinkCommand,
      PlusLinkerFlag(LinkCommand, "Debug"),
      PlusExecutableFile(LinkCommand, BinPath),
      PlusExecutableFile(PlusStaticLibraryFile(LinkCommand, Ole32Lib), BinPath) }

TokConfigs == { k \in Configs : ~k.initScript }

InitTok ==
    /\ config \in TokConfigs
    /\ \E ft \in {NoFile, File(FloatStep + 1, "obj")} :
          fs = [EmptyFs EXCEPT ![FileA] = File(MaxTime, "x"),
                               ![SrcPath] = File(MaxTime, "src"), ![TmpObj] = ft]
    /\ CLFlags = {}
    /\ OtherCLArguments = <<>>
    /\ cmd \in { NewCommand("command", <<>>),
                 UpdateOutputTime(NewCommand("command", <<"p">>), FileA, FALSE),
                 CompileCommand, LinkCommand }
    /\ ndecl = 0 /\ missingIn = FALSE /\ missingOut = FALSE
    /\ lastRun = NoRun
    /\ argv = <<>> /\ pc = "none" /\ stack = <<>> /\ events = <<>>
    /\ exits = <<>> /\ rebuilds = 0
    /\ dir = NoDir
    /\ op = NoOp

tokIdle == <<sharedVars, missingIn, missingOut, lastRun, bootVars, dir>>

FirstSource == IF op.name = "none" THEN <<>> ELSE op.src
Merged == op.name # "none" /\ op.merged
Threw == op.name # "none" /\ op.threw
TokCan(kind) == ndecl < MaxToks /\ ~Threw /\ cmd.kind = kind

(* the operator returned c *)
Appended(name, arg, c, log) ==
    /\ cmd' = c
    /\ ndecl' = ndecl + 1
    /\ op' = [name |-> name, arg |-> arg, log |-> log, threw |-> FALSE,
              src |-> IF name = "SourceFile" /\ FirstSource = <<>> THEN arg ELSE FirstSource,
              merged |-> (Merged \/ name = "AddLinkCommand")]
    /\ UNCHANGED tokIdle

(* the operator threw std::out_of_range *)
Thrown(name, arg) ==
    /\ ndecl' = ndecl + 1
    /\ op' = [name |-> name, arg |-> arg, log |-> <<>>, threw |-> TRUE, src |-> FirstSource,
              merged |-> Merged]
    /\ UNCHANGED <<cmd, tokIdle>>

TokPlusStr(t) == TokCan("command") /\ Appended("PlusStr", t, OpPlusStr(cmd, t), <<>>)
TokMinusStr(t) == TokCan("command") /\ Appended("MinusStr", t, OpMinusStr(cmd, t), <<>>)
TokPlusPath(f) == TokCan("command") /\ Appended("PlusPath", f, OpPlusPath(cmd, f), <<>>)
TokMinusPath(f) == TokCan("command") /\ Appended("MinusPath", f, OpMinusPath(cmd, f), <<>>)
TokPlusCmd(b) == TokCan("command") /\ Appended("PlusCmd", b, OpPlusCmd(cmd, b), <<>>)

TokSourceFile(f) ==
    TokCan("compile") /\ Appended("SourceFile", f, PlusSourceFile(cmd, f), <<>>)
TokObjectFile(f) ==
    TokCan("compile") /\ Appended("ObjectFile", f, PlusObjectFile(cmd, f), <<>>)
TokIncludeDirectory(f) ==
    TokCan("compile") /\ Appended("IncludeDirectory", f, PlusIncludeDirectory(cmd, f), <<>>)
TokPrecompiledHeader(h, g) ==
    /\ TokCan("compile")
    /\ Appended("PrecompiledHeader", h, PlusPrecompiledHeader(cmd, h, g), PrecompiledHeaderLog)

TokCompilerFlag(f) ==
    /\ TokCan("compile")
    /\ IF f = "NoObjectFile" /\ NoObjectFileThrows(cmd)
       THEN Thrown("CompilerFlag", f)
       ELSE Appended("CompilerFlag", f, PlusCompilerFlag(cmd, f), CompilerFlagLog(f))

TokAddLinkCommand(lc) ==
    /\ TokCan("compile")
    /\ IF AddLinkCommandThrows(cmd, lc)
       THEN Thrown("AddLinkCommand", lc)
       ELSE Appended("AddLinkCommand", lc, PlusAddLinkCommand(cmd, lc), <<>>)

TokLinkerFlag(f) ==
    TokCan("link") /\ Appended("LinkerFlag", f, PlusLinkerFlag(cmd, f), LinkerFlagLog(f))
TokStaticLibraryFile(f) ==
    TokCan("link") /\ Appended("StaticLibraryFile", f, PlusStaticLibraryFile(cmd, f), <<>>)
TokDynamicLibraryFile(f, apple) ==
    /\ TokCan("link")
    /\ Appended("DynamicLibraryFile", f, PlusDynamicLibraryFile(cmd, f, apple), <<>>)
TokExecutableFile(f) ==
    TokCan("link") /\ Appended("ExecutableFile", f, PlusExecutableFile(cmd, f), <<>>)

NextTok ==
    \/ \E t \in TokStrings : TokPlusStr(t)
    \/ \E t \in TokStrings : TokMinusStr(t)
    \/ \E f \in TokPaths : TokPlusPath(f)
    \/ \E f \in TokPaths : TokMinusPath(f)
    \/ \E b \in ChainPool : TokPlusCmd(b)
    \/ TokSourceFile(SrcPath)
    \/ TokObjectFile(FileB)
    \/ TokIncludeDirectory(IncDir)
    \/ TokPrecompiledHeader(FileA, FileB)
    \/ \E f \in CompilerFlags : TokCompilerFlag(f)
    \/ \E lc \in LinkPool : TokAddLinkCommand(lc)
    \/ \E f \in LinkerFlags : TokLinkerFlag(f)
    \/ \E f \in LibPaths : TokStaticLibraryFile(f)
    \/ \E f \in LibPaths, apple \in BOOLEAN : TokDynamicLibraryFile(f, apple)
    \/ TokExecutableFile(BinPath)

SpecTok == InitTok /\ [][NextTok]_vars

----------------------------------------------------------------------------
(* SpecLink: LinkDirectory over an object directory that holds object       *)
(* files and a subdirectory with an object file of its own                   *)

ExePath == <<"m">>
SubDir  == PathJoin(ObjRoot, <<"d">>)
SubObj  == PathJoin(SubDir, <<"9">> \o ObjExt)

(* the object files that may lie directly in the object directory *)
TopObjects == { ObjectPathOf(SrcFile(i)) : i \in 1 .. MaxFiles }

(* what directory_iterator(obj) may yield, in its order *)
ObjEntries ==
    [i \in 1 .. (MaxFiles + 1) |->
        IF i <= MaxFiles THEN ObjectPathOf(SrcFile(i)) ELSE SubDir]

InitLink ==
    /\ config \in CmdConfigs
    /\ CLFlags \in {{}, {"Clean"}}
    /\ OtherCLArguments = <<>>
    /\ \E objs \in [TopObjects -> {NoFile} \cup { File(t, "obj") : t \in Times }],
          exe \in {NoFile} \cup { File(t, "exe") : t \in Times },
          sub \in BOOLEAN :
          fs = [p \in TopObjects \cup {SubDir, SubObj, ExePath} |->
                  IF p \in TopObjects THEN objs[p]
                  ELSE IF p = ExePath THEN exe
                  ELSE IF ~sub THEN NoFile
                  ELSE IF p = SubDir THEN File(0, "dir") ELSE File(MaxTime, "obj")]
    /\ dir = [phase |-> "list", entries |-> <<>>, i |-> 1, runs |-> 0]
    /\ cmd = LinkCommand
    /\ ndecl = 0 /\ missingIn = FALSE /\ missingOut = FALSE
    /\ lastRun = NoRun
    /\ argv = <<>> /\ pc = "none" /\ stack = <<>> /\ events = <<>>
    /\ exits = <<>> /\ rebuilds = 0
    /\ op = NoOp

linkIdle == <<sharedVars, ndecl, missingIn, missingOut, bootVars, op>>

(* std::filesystem::directory_iterator(obj) *)
LinkList ==
    /\ dir.phase = "list"
    /\ dir' = [dir EXCEPT !.phase = "fold", !.entries = SelectSeq(ObjEntries, exists)]
    /\ UNCHANGED <<cmd, lastRun, linkIdle>>

(* cmd = cmd + ObjectFile{p} *)
LinkFold ==
    /\ dir.phase = "fold" /\ dir.i <= Len(dir.entries)
    /\ cmd' = PlusLinkObjectFile(cmd, dir.entries[dir.i])
    /\ dir' = [dir EXCEPT !.i = @ + 1]
    /\ UNCHANGED <<lastRun, linkIdle>>

(* cmd = cmd + ExecutableFile{exe} *)
LinkExe ==
    /\ dir.phase = "fold" /\ dir.i > Len(dir.entries)
    /\ cmd' = PlusExecutableFile(cmd, ExePath)
    /\ dir' = [dir EXCEPT !.phase = "run"]
    /\ UNCHANGED <<lastRun, linkIdle>>

(* cmd.Run() *)
LinkRun(r) ==
    /\ dir.phase = "run"
    /\ lastRun' = Run(cmd, r)
    /\ dir' = [dir EXCEPT !.phase = "returned", !.runs = @ + 1]
    /\ UNCHANGED <<cmd, linkIdle>>

NextLink ==
    \/ LinkList
    \/ LinkFold
    \/ LinkExe
    \/ \E r \in ExitCodes : LinkRun(r)

SpecLink == InitLink /\ [][NextLink]_vars

----------------------------------------------------------------------------
(* Properties *)

Range(q) == { q[i] : i \in 1 .. Len(q) }
IsPrefix(a, b) == Len(a) <= Len(b) /\ SubSeq(b, 1, Len(a)) = a

(* C1: Command::Run skips (no child process, status 0, "Command skipped")   *)
(* exactly when Clean is not set, earliestOutput is not FLT_MAX and         *)
(* latestInput < earliestOutput strictly; in every other case, equal times  *)
(* and Clean included, the command text is spawned.                         *)
C1_SkipRule ==
    lastRun.called =>
        /\ (~lastRun.spawned) <=> ( /\ "Clean" \notin CLFlags
                                    /\ cmd.earliestOutput # FLT_MAX
                                    /\ cmd.latestInput < cmd.earliestOutput )
        /\ ~lastRun.spawned => (lastRun.ret = 0 /\ lastRun.log = "Command skipped")
        /\ lastRun.spawned => lastRun.text = cmd.text

C1_Witness ==
    /\ lastRun.called /\ ~lastRun.spawned
    /\ ndecl = MaxDecls /\ cmd.earliestOutput < FLT_MAX

(* C2: once a non-tolerant declared input was absent, or a non-tolerant     *)
(* declared output was absent, Run executes the command, whatever else was  *)
(* declared before or after and whatever the other files' times are.        *)
C2_MissingForcesRun ==
    (lastRun.called /\ (missingIn \/ missingOut)) => lastRun.spawned

C2_Witness ==
    /\ lastRun.called /\ lastRun.spawned /\ missingIn
    /\ "Clean" \notin CLFlags
    /\ cmd.earliestOutput < FLT_MAX /\ cmd.earliestOutput > 1

(* C3: a command starts with latestInput = 1 and earliestOutput = FLT_MAX,  *)
(* and no UpdateInputTime/UpdateOutputTime call or declaring token append   *)
(* lowers latestInput or raises earliestOutput.                             *)
C3_Monotone ==
    /\ [](ndecl = 0 => (cmd.latestInput = 1 /\ cmd.earliestOutput = FLT_MAX))
    /\ [][ /\ cmd'.latestInput >= cmd.latestInput
           /\ cmd'.earliestOutput <= cmd.earliestOutput ]_vars

C3_Witness ==
    /\ ndecl = MaxDecls
    /\ cmd.latestInput > 1 /\ cmd.latestInput < FLT_MAX
    /\ cmd.earliestOutput > 0 /\ cmd.earliestOutput < FLT_MAX

(* the running process descends from a process that took the stale path *)
DescendsFromStale == \E i \in 1 .. Len(stack) : "rename" \in Range(stack[i].events)

(* C4: the relaunch command of the stale path carries -norebuild, and a     *)
(* process started from it takes the Fresh branch (no rename, no rebuild,   *)
(* no relaunch), so one invocation rebuilds at most once, whatever the file *)
(* times are when the relaunched process starts.                            *)
C4_SingleFire ==
    /\ rebuilds <= 1
    /\ pc = "relaunch" => NoRebuildArg \in Range(ShellWords(RelaunchCommand.text))
    /\ DescendsFromStale =>
          /\ NoRebuildArg \in Range(argv)
          /\ pc \notin {"compare", "rename", "rebuild", "relaunch"}
          /\ ~Has("rename") /\ ~Has("deleteOld")
          /\ ~Has("launch") /\ ~Has("launchFailed")

C4_Witness ==
    /\ DescendsFromStale /\ pc = "returned"
    /\ exists(srcPath) /\ exists(binPath) /\ BinaryOlder

(* the init-script relaunch of lines 2473-2482 applies to the running process *)
InitScriptPending == config.initScript /\ "NoInitScript" \notin ConsumeFlags(argv).flags

NoStalePath ==
    /\ pc \notin {"rename", "rebuild", "relaunch", "exit0"}
    /\ ~Has("rename") /\ ~Has("launch") /\ ~Has("launchFailed") /\ ~Has("terminate")
    /\ pc = "ended" => Has("main")

StalePath ==
    /\ pc \notin {"debug", "returned"}
    /\ pc \in {"exit0", "ended"} => Has("rename")

(* C5 as stated: Init takes the stale path exactly when no -norebuild is    *)
(* given, the source exists and the binary is strictly older; in every      *)
(* other case it renames nothing, spawns nothing and returns to its caller. *)
C5_StaleIffAlways ==
    Len(argv) >= 1 =>
        /\ Has("entryStale") => StalePath
        /\ (Has("entryFresh") \/ Has("entryNoBinary")) => NoStalePath

(* C5, amended: the same, for a process to which the init-script relaunch   *)
(* does not apply and whose argv[0] names an existing file. A process to    *)
(* which the init-script relaunch applies takes neither branch: it never    *)
(* reaches the rebuild check and never returns. A process whose argv[0]     *)
(* names no file renames nothing and spawns nothing.                        *)
C5_StaleIff ==
    Len(argv) >= 1 =>
        /\ ~InitScriptPending =>
              /\ Has("entryStale") => StalePath
              /\ Has("entryFresh") => NoStalePath
              /\ Has("entryNoBinary") =>
                    (~Has("rename") /\ ~Has("launch") /\ ~Has("launchFailed"))
        /\ InitScriptPending =>
              /\ pc \notin {"check", "compare", "rename", "rebuild", "relaunch",
                             "debug", "returned"}
              /\ ~Has("rename")

C5_Witness ==
    /\ ~InitScriptPending /\ Has("entryStale") /\ Has("rename") /\ pc = "ended"

(* C8: after a failed rebuild the bootstrap launches nothing and does not   *)
(* exit with status 0.                                                      *)
C8_FailedRebuildIsFatal ==
    Has("rebuildFailed") =>
        /\ ~Has("launch") /\ ~Has("launchFailed")
        /\ pc # "exit0"
        /\ pc = "ended" => exits[Len(exits)].status # 0

(* the events of a process from its rename on *)
StaleTrace(ev) ==
    LET hits == { i \in 1 .. Len(ev) : ev[i] = "rename" }
    IN  IF hits = {} THEN <<>> ELSE SubstrFrom(ev, SetMin(hits))

RebuildOutcomes == {"rebuildOk", "rebuildFailed", "rebuildSkipped"}

StaleOrders ==
    { <<"rename", r, "launch", "childEnded", "exit">> : r \in RebuildOutcomes }
    \cup { <<"rename", r, "launchFailed", "exit">> : r \in RebuildOutcomes }
    \cup { <<"rename", "terminate">> }

BackupKept == \E p \in DOMAIN fs : fs[p].exists /\ fs[p].data = "backup"

Workers == 1 .. Len(dir.w)

(* C6: when CompileDirectory returns, every discovered source file has had  *)
(* exactly one Run of its compile command, in both modes and whatever the   *)
(* other compiles returned.                                                 *)
C6_AllAttempted ==
    dir.phase = "returned" =>
        /\ Len(dir.files) = Cardinality({ i \in 1 .. Len(TreeEntries) :
                                             IsCppFile(TreeEntries[i]) })
        /\ \A k \in Workers : dir.w[k].runs = 1 /\ dir.w[k].pc = "done"

C6_Witness ==
    /\ dir.phase = "returned" /\ dir.async /\ Len(dir.files) >= 2
    /\ \E k \in Workers : dir.w[k].spawned /\ dir.w[k].status # 0
    /\ \E k \in Workers : ~dir.w[k].spawned

(* C7: no two Runs that are in flight together use the same stderr scratch  *)
(* file, and the lines a Run reports are the lines its own child wrote.     *)
C7_PrivateScratch ==
    dir.phase \in {"spawn", "join", "seq", "returned"} =>
        /\ \A k1 \in Workers, k2 \in Workers :
              ( /\ k1 # k2
                /\ dir.w[k1].pc \in {"child", "read"}
                /\ dir.w[k2].pc \in {"child", "read"} )
              => dir.w[k1].scratch # dir.w[k2].scratch
        /\ \A k \in Workers :
              (dir.w[k].pc = "done" /\ dir.w[k].spawned)
              => dir.w[k].reported = dir.w[k].wrote

(* C11: parsing the argument list of the relaunch command gives the       *)
(* passthrough list of the original invocation, element for element, and    *)
(* the original switches plus no-rebuild.                                   *)
C11_ArgsForwarded ==
    pc = "reparsed" =>
        /\ OtherCLArguments = stack[1].others
        /\ CLFlags = stack[1].CLFlags \cup {"NoRebuild"}

EndsWith(a, b) == Len(b) <= Len(a) /\ SubSeq(a, Len(a) - Len(b) + 1, Len(a)) = b

(* a token was appended in this step *)
TokStep == ndecl' = ndecl + 1 /\ op'.name # "none"

SameFrame(a, b) ==
    /\ a.path = b.path
    /\ a.latestInput = b.latestInput
    /\ a.earliestOutput = b.earliestOutput

(* the token has no entry in the table of the build's variant *)
Unmapped(name, arg) ==
    \/ name = "CompilerFlag" /\ arg \in TableFlags /\ config.compiler = "none"
    \/ name = "CompilerFlag" /\ arg = "PositionIndependentCode" /\ config.host = "win32"
    \/ name = "LinkerFlag" /\ config.compiler = "none"
    \/ name = "PrecompiledHeader" /\ config.compiler # "msvc"

(* C12: appending a token that the variant's table does not map logs an     *)
(* unsupported-feature message and returns the command with its text,       *)
(* working directory, latestInput and earliestOutput unchanged.             *)
C12_UnsupportedReported ==
    [][ (TokStep /\ Unmapped(op'.name, op'.arg)) =>
            /\ op'.log # <<>>
            /\ cmd'.text = cmd.text
            /\ SameFrame(cmd', cmd) ]_vars

CompileOnlyFlag == <<"-", "c">>
PlaceholderArg ==
    IF config.compiler = "msvc" THEN <<"-", "F", "o">> \o Quoted(TmpObj)
    ELSE <<"-", "o", SP>> \o Quoted(TmpObj)
ExecutableFlag == IF config.compiler = "msvc" THEN <<"-","o","u","t",":">> ELSE <<"-","o">>
NamesExecutable(lc) == Find(lc.text, ExecutableFlag) # 0

(* the arguments appended to a link command after its constructor *)
LinkArgsText(lc) == SubstrFrom(lc.text, Len(LinkCommand.text) + 1)

MergeShape ==
    (TokStep /\ op'.name = "AddLinkCommand" /\ ~Merged /\ FirstSource # <<>>) =>
        /\ ~op'.threw
        /\ Find(cmd'.text \o <<SP>>, <<SP>> \o CompileOnlyFlag \o <<SP>>) = 0
        /\ Find(cmd'.text, PlaceholderArg) # 0
        /\ IF NamesExecutable(op'.arg)
           THEN EndsWith(cmd'.text, LinkArgsText(op'.arg))
           ELSE Find(cmd'.text, LinkArgsText(op'.arg)) # 0

(* C13: merging a link command into a compile command (the default command  *)
(* plus compile tokens, a source file among them) gives one command whose   *)
(* text (a) has no compile-only flag, (b) sends the object file to the      *)
(* placeholder path, (c) ends with the link command's arguments.            *)
C13_MergeShape == [][MergeShape]_vars

HostExecutable(p) ==
    replace_extension(p, IF config.host = "win32" THEN <<"e","x","e">> ELSE <<>>)

DefaultExecutable ==
    ( /\ TokStep /\ op'.name = "AddLinkCommand" /\ ~Merged
      /\ ~NamesExecutable(op'.arg) /\ FirstSource # <<>> ) =>
        /\ ~op'.threw
        /\ LET explicit == PlusExecutableFile(op'.arg, HostExecutable(FirstSource))
           IN  /\ ~AddLinkCommandThrows(cmd, explicit)
               /\ cmd'.text = PlusAddLinkCommand(cmd, explicit).text

(* C14: merging a link command that names no executable into a compile      *)
(* command whose first source file is S gives the command that merging the  *)
(* link command with ExecutableFile{S with the host's executable extension} *)
(* gives.                                                                   *)
C14_DefaultExecutable == [][DefaultExecutable]_vars

HostStaticExtension == IF config.host = "win32" THEN <<"l","i","b">> ELSE <<"a">>
HostDynamicExtensions ==
    IF config.host = "win32" THEN {<<"d","l","l">>} ELSE {<<"d","y","l","i","b">>, <<"s","o">>}

StaticRewritten ==
    ( /\ TokStep /\ op'.name = "StaticLibraryFile"
      /\ extension(op'.arg) \in {<<".", "a">>, <<".", "l", "i", "b">>} ) =>
        EndsWith(cmd'.text, Quoted(replace_extension(op'.arg, HostStaticExtension)))

DynamicRewritten ==
    (TokStep /\ op'.name = "DynamicLibraryFile") =>
        \E e \in HostDynamicExtensions :
            EndsWith(cmd'.text, Quoted(replace_extension(op'.arg, e)))

(* C15: a StaticLibraryFile whose extension is .a or .lib is emitted with   *)
(* the host's static-library extension, and a DynamicLibraryFile with the   *)
(* host's dynamic-library extension.                                        *)
C15_LibraryExtensions == [][StaticRewritten /\ DynamicRewritten]_vars

(* C16: operator+ gives cmd.text, a blank and t (t alone on an empty text), *)
(* operator- gives cmd.text and t, the path overloads put the path in       *)
(* double quotes first, and all four keep the working directory,            *)
(* latestInput and earliestOutput.                                          *)
C16_AppendText ==
    [][ (TokStep /\ op'.name \in {"PlusStr", "MinusStr", "PlusPath", "MinusPath"}) =>
            LET t == IF op'.name \in {"PlusPath", "MinusPath"}
                     THEN <<Q>> \o op'.arg \o <<Q>> ELSE op'.arg
            IN  /\ op'.name \in {"PlusStr", "PlusPath"} =>
                      cmd'.text = IF cmd.text = <<>> THEN t ELSE cmd.text \o <<" ">> \o t
                /\ op'.name \in {"MinusStr", "MinusPath"} => cmd'.text = cmd.text \o t
                /\ SameFrame(cmd', cmd)
                /\ ~op'.threw /\ op'.log = <<>> ]_vars

C16_Witness ==
    /\ op.name = "MinusPath" /\ ndecl = MaxToks
    /\ cmd.earliestOutput < FLT_MAX /\ Len(cmd.text) > Len(op.arg) + 2

(* C17: a + b on two Commands has a's text, "&&", then b's text, and a's    *)
(* working directory, latestInput and earliestOutput; whether it is skipped *)
(* is decided by a alone.                                                   *)
C17_ChainKeepsLeft ==
    [][ (TokStep /\ op'.name = "PlusCmd") =>
            /\ ShellWords(cmd'.text) =
                   ShellWords(cmd.text) \o <<<<"&", "&">>>> \o ShellWords(op'.arg.text)
            /\ IF cmd.text = <<>> THEN IsPrefix(<<"&", "&">>, cmd'.text)
               ELSE IsPrefix(cmd.text \o <<" ", "&", "&">>, cmd'.text)
            /\ EndsWith(cmd'.text, <<"&", "&", " ">> \o op'.arg.text)
            /\ SameFrame(cmd', cmd)
            /\ RunSkips(cmd') <=> RunSkips(cmd) ]_vars

C17_Witness ==
    /\ op.name = "PlusCmd" /\ op.arg.latestInput = FLT_MAX
    /\ cmd.earliestOutput < FLT_MAX /\ RunSkips(cmd)

NonEmptyToks == TokStrings \ {<<>>}
Text3(c, a, b, d) == OpPlusStr(OpPlusStr(OpPlusStr(c, a), b), d).text
Grouped(c, a, b, d) ==
    { OpPlusStr(c, Text3(NewCommand("command", <<>>), a, b, d)).text,
      OpPlusStr(OpPlusStr(c, a), OpPlusStr(OpPlusStr(NewCommand("command", <<>>), b), d).text).text,
      OpPlusStr(OpPlusStr(c, OpPlusStr(OpPlusStr(NewCommand("command", <<>>), a), b).text), d).text }

(* C18 as stated: for every command and all token strings a, b, c, the      *)
(* empty string included, every grouping of the appends gives one text.     *)
C18_AssociativeAlways ==
    cmd.kind = "command" =>
        \A a \in TokStrings, b \in TokStrings, d \in TokStrings :
            Grouped(cmd, a, b, d) = {Text3(cmd, a, b, d)}

(* C18, amended: the same for non-empty token strings a, b, c.              *)
C18_Associative ==
    cmd.kind = "command" =>
        \A a \in NonEmptyToks, b \in NonEmptyToks, d \in NonEmptyToks :
            Grouped(cmd, a, b, d) = {Text3(cmd, a, b, d)}

C18_Witness ==
    /\ cmd.kind = "command" /\ ndecl = MaxToks /\ op.name = "PlusStr"
    /\ cmd.text # <<>>
    /\ \E a \in NonEmptyToks, b \in NonEmptyToks :
          Text3(cmd, a, b, a) = cmd.text \o <<" ">> \o a \o <<" ">> \o b \o <<" ">> \o a

(* the step in which the Run of worker k goes on after std::system *)
RunResumes(k) == dir.w[k].pc = "read" /\ dir'.w[k].pc = "done"

RawStatus ==
    \A k \in Workers :
        RunResumes(k) =>
            /\ dir'.w[k].ret = dir.w[k].status
            /\ dir'.w[k].reported = dir.log[dir.w[k].scratch]
            /\ dir'.w[k].log = "Done"
            /\ dir'.phase = dir.phase
            /\ \A j \in Workers \ {k} : dir'.w[j] = dir.w[j]

(* C19: a Run that executed its command returns the status of the child    *)
(* unchanged; whatever that status is, it then logs every line of the       *)
(* captured stderr and "Done", and leaves the caller and the other Runs as  *)
(* they were.                                                               *)
C19_RawStatus == [][RawStatus]_vars

C19_Witness ==
    /\ dir.phase = "returned"
    /\ \E k \in Workers :
          /\ dir.w[k].pc = "done" /\ dir.w[k].spawned
          /\ dir.w[k].status # 0 /\ dir.w[k].ret = dir.w[k].status
          /\ dir.w[k].reported # <<>> /\ dir.w[k].log = "Done"

(* the step in which worker k enters Run with the command of its file *)
RunEntered(k) == dir.w[k].pc = "ready" /\ dir'.w[k].pc # "ready"

OwnObjectDecides ==
    \A k \in Workers :
        (RunEntered(k) /\ "Clean" \notin CLFlags) =>
            LET src == dir.files[k]
                obj == ObjectPathOf(src)
            IN  ~dir'.w[k].spawned <=>
                    (exists(obj) /\ last_write_time(obj) > last_write_time(src))

(* C20: without Clean, the compile of a discovered file is skipped exactly *)
(* when the object file of that file exists and is strictly newer than the  *)
(* file, whatever the state of the other files.                             *)
C20_OwnObjectDecides == [][OwnObjectDecides]_vars

(* the number of places where pat stands in s *)
Occurrences(s, pat) ==
    Cardinality({ i \in 1 .. (Len(s) - Len(pat) + 1) : SubSeq(s, i, i + Len(pat) - 1) = pat })

(* the object files that lie directly in the object directory *)
FoldedObjects == { p \in TopObjects : exists(p) }

(* C21: LinkDirectory builds one link command: each object file directly   *)
(* in the object directory is named once, no file of a subdirectory is      *)
(* named, the executable is declared after the inputs, Run is called once,  *)
(* and the link is skipped only if the executable exists and is strictly    *)
(* newer than every folded object.                                          *)
C21_OneLink ==
    dir.phase = "returned" =>
        /\ \A p \in FoldedObjects :
              /\ Occurrences(cmd.text, Quoted(p)) = 1
              /\ Find(cmd.text, Quoted(p)) < Find(cmd.text, Quoted(ExePath))
              /\ cmd.latestInput >= FloatOf(last_write_time(p))
        /\ Find(cmd.text, SubObj) = 0
        /\ Occurrences(cmd.text, Quoted(ExePath)) = 1
        /\ EndsWith(cmd.text, Quoted(ExePath))
        /\ dir.runs = 1 /\ lastRun.called
        /\ ~lastRun.spawned =>
              /\ exists(ExePath)
              /\ \A p \in FoldedObjects : last_write_time(ExePath) > last_write_time(p)

C21_Witness ==
    /\ dir.phase = "returned" /\ ~lastRun.spawned
    /\ Cardinality(FoldedObjects) = MaxFiles
    /\ exists(SubObj)
    /\ \E p \in FoldedObjects : last_write_time(p) > 0

(* the switch a token stands for, "" for every other token *)
SwitchOf(a) ==
    CASE a = NoRebuildArg -> "NoRebuild"
      [] a = NoInitScriptArg -> "NoInitScript"
      [] a = DebugArg -> "Debug"
      [] a = SilentArg -> "Silent"
      [] a = CleanArg -> "Clean"
      [] OTHER -> ""

IsPassthrough(a) == SwitchOf(a) = ""

(* C22: after the parse the switch set holds exactly the switches that     *)
(* occur after the program name, and the passthrough list exactly the       *)
(* other tokens in their order, whatever the two held before.               *)
C22_ParsedExactly ==
    pc \in {"parsed", "reparsed"} =>
        /\ CLFlags = { SwitchOf(argv[i]) : i \in 2 .. Len(argv) } \ {""}
        /\ OtherCLArguments = SelectSeq(Tail(argv), IsPassthrough)

C22_Witness ==
    /\ pc = "parsed"
    /\ Len(argv) = 3 /\ argv[2] = argv[3] /\ IsPassthrough(argv[2])
    /\ OtherCLArguments = <<argv[2], argv[2]>>
    /\ CLFlags = {}

(* C23: with runAsync = false the compile of a file starts only after the  *)
(* compiles of all files discovered before it have finished.                *)
C23_OneAtATime ==
    (dir.phase \in {"seq", "returned"} /\ ~dir.async) =>
        \A k \in Workers :
            dir.w[k].pc # "new" => \A j \in 1 .. (k - 1) : dir.w[j].pc = "done"

C23_Witness ==
    /\ dir.phase = "seq" /\ ~dir.async /\ Len(dir.files) >= 2
    /\ dir.w[1].pc = "done" /\ dir.w[1].spawned /\ dir.w[1].status # 0
    /\ dir.w[2].pc = "child"

DeclaredTimes ==
    \A f \in CmdFiles :
        /\ exists(f) =>
              \A k \in BOOLEAN :
                  /\ UpdateInputTime(cmd, f, k) =
                        [cmd EXCEPT !.latestInput = Max(@, last_write_time(f))]
                  /\ UpdateOutputTime(cmd, f, k) =
                        [cmd EXCEPT !.earliestOutput = Min(@, last_write_time(f))]
        /\ ~exists(f) =>
              /\ UpdateInputTime(cmd, f, TRUE) = cmd
              /\ UpdateOutputTime(cmd, f, TRUE) = cmd

(* C24: declaring an existing file as input raises latestInput to the      *)
(* file's modification time, declaring it as output lowers earliestOutput   *)
(* to it, each leaving the other fields alone; declaring an absent file     *)
(* with skipOnFail changes nothing.                                         *)
C24_DeclaredTimes == DeclaredTimes

(* C25: on the stale path the rebuild command is never skipped, so every   *)
(* relaunch of the stale path follows a spawned recompilation.              *)
C25_RebuildSpawned ==
    /\ "rebuildSkipped" \notin Range(events)
    /\ pc = "relaunch" => lastRun.spawned

(* the binary path or its backup path holds a file, and after a failed     *)
(* recompilation it is the backup path that does                            *)
ExecutableKept ==
    /\ exists(BinPath) \/ exists(OldBinPath)
    /\ Has("rebuildFailed") => (exists(OldBinPath) /\ ~exists(BinPath))

(* C26 as stated: in every state of the bootstrap the binary path or its   *)
(* backup path holds an executable.                                         *)
C26_ExecutableAlways == ExecutableKept

(* C26, amended: when the binary path holds a file as the invocation       *)
(* starts, the binary path or its backup path holds one in every later      *)
(* state, and after a failed recompilation the backup path does while the   *)
(* binary path is empty.                                                    *)
C26_ExecutableKept == exists(BinPath) => []ExecutableKept

C26_Witness ==
    /\ Has("rebuildFailed") /\ Has("launchFailed") /\ pc = "ended"
    /\ exists(OldBinPath) /\ fs[OldBinPath].data = "bin"
    /\ ~exists(BinPath)

(* the invocation has ended: the first process and all it launched *)
ChainEnded == pc = "ended" /\ stack = <<>>

(* the process launched last *)
LastProcess ==
    CHOOSE e \in Range(exits) : \A o \in Range(exits) : o.depth <= e.depth

ChainFailures == {"initScriptFailed", "launchFailed", "terminate"}

(* no process of the invocation saw its init script, its launch or a file   *)
(* system call fail                                                         *)
NoChainFailure ==
    \A e \in Range(exits) : Range(e.events) \cap ChainFailures = {}

(* at most two relaunches are pending, a launched process carries the       *)
(* switch that was injected for it, and the process after two relaunches    *)
(* carries both and relaunches nothing                                      *)
BoundedChain ==
    /\ Len(stack) <= 2
    /\ rebuilds <= 1
    /\ \A i \in 1 .. Len(stack) :
          LET sent == IF i = Len(stack) THEN argv ELSE stack[i + 1].argv
          IN  IF stack[i].resume = AfterRelaunch /\ "rename" \in Range(stack[i].events)
              THEN NoRebuildArg \in Range(sent)
              ELSE NoInitScriptArg \in Range(sent)
    /\ Len(stack) = 2 =>
          /\ {NoInitScriptArg, NoRebuildArg} \subseteq Range(argv)
          /\ ~Has("launch") /\ ~Has("launchFailed")
          /\ pc \notin {"rename", "rebuild", "relaunch", "exit0"}

(* how far a process has come in Init and main *)
PcRank ==
    CASE pc = "ended" -> 0
      [] pc = "start" -> 1
      [] pc = "initscript" -> 2
      [] pc = "check" -> 3
      [] pc = "compare" -> 4
      [] pc = "rename" -> 5
      [] pc = "rebuild" -> 6
      [] pc = "relaunch" -> 7
      [] pc \in {"exit0", "debug"} -> 8
      [] pc = "returned" -> 9

(* a measure of the work done: the processes that have ended, the          *)
(* relaunches that wait for their child, and the place of the running       *)
(* process                                                                  *)
ChainRank == 10 * Len(exits) + 7 * Len(stack) + PcRank

(* three processes at most, each of which ends once *)
ChainRankMax == 10 * 3

ChainStep ==
    /\ BoundedChain'
    /\ ChainRank < ChainRank' /\ ChainRank' <= ChainRankMax
    /\ ChainEnded' <=> (ChainRank' = 10 * Len(exits'))

C28_DistinctObjects ==
    dir.phase \in {"spawn", "join", "seq", "returned"} =>
        /\ \A i \in 1 .. Len(dir.files), j \in 1 .. Len(dir.files) :
              i # j => ObjectPathOf(dir.files[i]) # ObjectPathOf(dir.files[j])
        /\ \A k1 \in Workers, k2 \in Workers :
              (k1 # k2 /\ dir.w[k1].pc = "child" /\ dir.w[k2].pc = "child")
              => ObjectPathOf(dir.files[k1]) # ObjectPathOf(dir.files[k2])

(* link commands with every kind of declared input and output *)
ScalarLinks == LinkPool \cup {PlusLinkObjectFile(LinkCommand, FileA)}

(* the modification time of the placeholder object, 0 if it is absent *)
PlaceholderTime == IF exists(TmpObj) THEN last_write_time(TmpObj) ELSE 0

MergedScalars ==
    (TokStep /\ op'.name = "AddLinkCommand" /\ ~op'.threw) =>
        /\ cmd'.latestInput = cmd.latestInput
        /\ cmd'.earliestOutput = Min(cmd.earliestOutput, PlaceholderTime)
        /\ \A lc \in ScalarLinks :
              ~AddLinkCommandThrows(cmd, lc) =>
                  RunSkips(PlusAddLinkCommand(cmd, lc)) = RunSkips(cmd')

(* C29: a link-merged command has the latestInput of the compile command   *)
(* and as earliestOutput the minimum of the compile command's and the       *)
(* placeholder object's modification time (0 if absent); the scalars of the *)
(* link command do not change whether it is skipped.                        *)
C29_MergedScalars == [][MergedScalars]_vars


(* the first word of a fresh compile command *)
CompilerName ==
    SubSeq(CompileCommand.text, 1, Find(CompileCommand.text, <<SP>>) - 1)

NoObjectFileStep ==
    TokStep /\ op'.name = "CompilerFlag" /\ op'.arg = "NoObjectFile"

(* the text with the placeholder put right behind the compiler name *)
PlaceholderFirst(text) ==
    CompilerName \o <<SP>> \o PlaceholderArg
        \o SubstrFrom(text, Len(CompilerName) + 1)

(* C30: appending CompilerFlag::NoObjectFile puts the placeholder
   object-output argument right behind the compiler name and before every
   other argument, the rest of the text keeping its order, and an object
   output appended with + ObjectFile afterwards stands behind the
   placeholder. *)
C30_PlaceholderFirst ==
    [][/\ NoObjectFileStep =>
            /\ ~op'.threw
            /\ CompilerName # <<>>
            /\ cmd'.text = PlaceholderFirst(cmd.text)
       /\ (TokStep /\ op'.name = "ObjectFile" /\ Find(cmd.text, PlaceholderArg) # 0) =>
            /\ Len(cmd'.text) > Len(cmd.text)
            /\ SubSeq(cmd'.text, 1, Len(cmd.text)) = cmd.text]_vars

====
